---- MODULE Spec2Model ----
(***************************************************************************)
(* Model of plugins/modules/lcopy.py: an Ansible module that copies one    *)
(* file, by a split / parallel transfer / reassemble pipeline when the     *)
(* file is larger than a threshold.                                        *)
(*                                                                         *)
(* A path is a sequence of path components, a file's content a sequence    *)
(* of bytes.  Every job-local name of main() is a function of the job, so  *)
(* that two invocations of the module can run against one filesystem.      *)
(***************************************************************************)
EXTENDS Integers, Sequences, FiniteSets, TLC

\* ---------------------------------------------------------------- bounds
MaxLen == 3          \* every source content up to this length is tried
MaxChunkMB == 2      \* largest chunk_size parameter
MaxWorkers == 2      \* largest workers parameter
MaxThresholdGB == 1  \* largest file_size_threshold parameter
BytesPerMB == 1      \* model bytes in one "MB" of line 113 (scaled down)
BytesPerGB == 2      \* model bytes in one "GB" of line 115 (scaled down)

Bytes == {0, 1}
JobIds == {1, 2}
None == "None"
NoExc == "none"

\* a source long enough for starmap to put two chunks in one task batch
LongSource == <<0, 1, 1, 0, 1>>

Contents == UNION {[1..n -> Bytes] : n \in 0..MaxLen} \cup {LongSource}

Min(a, b) == IF a < b THEN a ELSE b

\* ------------------------------------------------------- path operations
\* os.path.join(d, name)
Join(d, name) == Append(d, name)
\* os.path.dirname(p)
Dirname(p) == IF Len(p) = 0 THEN p ELSE SubSeq(p, 1, Len(p) - 1)
\* os.path.basename(p)
Basename(p) == p[Len(p)]

RECURSIVE PathStr(_)
\* str of a path, as it is interpolated into a message
PathStr(p) == IF Len(p) = 0 THEN "" ELSE "/" \o p[1] \o PathStr(Tail(p))

\* f"{i:05d}": decimal, zero-padded to at least five digits
Pad5(i) ==
    IF i < 10 THEN "0000" \o ToString(i)
    ELSE IF i < 100 THEN "000" \o ToString(i)
    ELSE IF i < 1000 THEN "00" \o ToString(i)
    ELSE IF i < 10000 THEN "0" \o ToString(i)
    ELSE ToString(i)

\* line 50: the name of the i-th source chunk
ChunkName(i) == "chunk_" \o Pad5(i)
\* mutant: the index is left out of the transferred chunk's name
DestChunkName_NoIndex(i) == "dest_chunk_" \o Pad5(0)

\* line 77: the name of the i-th transferred chunk
DestChunkName(i) == "dest_chunk_" \o Pad5(i)

\* line 131: the scratch directory of a job writing to dest
ChunkDirOf(dest) == Join(Dirname(dest), ".copy_chunks_tmp")

\* ------------------------------------------------- filesystem operations
WriteFile(fs, p, c) == [q \in (DOMAIN fs) \cup {p} |-> IF q = p THEN c ELSE fs[q]]
RemoveFile(fs, p) == [q \in (DOMAIN fs) \ {p} |-> fs[q]]
\* the paths of the regular files directly in directory d
FilesIn(fs, d) == {p \in DOMAIN fs : Len(p) = Len(d) + 1 /\ Dirname(p) = d}

RECURSIVE SetToSeq(_)
\* os.listdir returns the entries in an unspecified order; the model fixes one
SetToSeq(S) ==
    IF S = {} THEN <<>>
    ELSE LET x == CHOOSE y \in S : TRUE IN <<x>> \o SetToSeq(S \ {x})

\* ------------------------------------------------------------- messages
\* line 119
MsgNotFound(src) == "Source file '" \o PathStr(src) \o "' not found"
\* line 125
MsgForce == "File exists and force is false"
\* line 128
MsgCheck == "Check mode: file would be copied"
\* line 143 (file_size_threshold holds bytes there)
MsgChunked(threshold, chunk_size_mb) ==
    "File >" \o ToString(threshold) \o "GB; used parallel chunked copy ("
        \o ToString(chunk_size_mb) \o "MB chunks)"
\* line 150 (a plain string, not an f-string; its first sign is U+2264)
MsgDirect == "File <={file_size_threshold}; use normal copy for this task"
\* line 162
MsgCopied(src, dest, chunk_size_mb) ==
    "Copied '" \o PathStr(src) \o "' to '" \o PathStr(dest)
        \o "' using parallel chunked copy (" \o ToString(chunk_size_mb) \o " MB)"
\* line 164
MsgFailed(e) == "Failed: " \o e

\* A call f(k1=.., k2=.., **result) raises TypeError ("got multiple values
\* for keyword argument") when result has one of the explicit keywords.
KwClash(keywords, rec) == (keywords \cap DOMAIN rec) # {}

NoOutput == [kind |-> "none", changed |-> FALSE, msg |-> "", error |-> NoExc]
\* module.exit_json(**kw): the module's JSON answer, then SystemExit(0)
ExitJson(changed, msg) ==
    [kind |-> "exit_json", changed |-> changed, msg |-> msg, error |-> NoExc]
\* module.fail_json(msg=.., **kw): the JSON failure answer, then SystemExit(1)
FailJson(changed, msg) ==
    [kind |-> "fail_json", changed |-> changed, msg |-> msg, error |-> NoExc]
\* an exception leaves main(): the caller gets a traceback, no JSON answer
Traceback(e) ==
    [kind |-> "traceback", changed |-> FALSE, msg |-> "", error |-> e]

\* -------------------------------------------------------------- state
VARIABLES
    params,            \* module.params of each job (lines 105-116)
    files,             \* the regular files: path -> content
    dirs,              \* the directories
    attrs,             \* mode/owner/group set on a path by chmod/chown
    pc,                \* where each job's main() is
    dest,              \* the local dest (line 106, reassigned at 122)
    chunk_paths,       \* split_file's chunk_paths
    taskqueue,         \* the pool's task batches not yet taken by a worker
    inflight,          \* the batches the pool's workers are processing
    poolExc,           \* the first exception a pool task raised
    written,           \* reassemble_file: chunks appended to out so far
    exc,               \* the exception propagating in main()
    result,            \* the result dict (line 98)
    output,            \* what the caller of the module receives
    listing,           \* the names os.listdir returned, still to remove
    fpos,              \* split_file: the read offset of f in the source
    files0,            \* history: the files before any job started
    dirs0,             \* history: the directories before any job started
    hist               \* history: facts of each run the claims refer to

vars == <<params, files, dirs, attrs, pc, dest, chunk_paths, taskqueue,
          inflight, poolExc, written, exc, result, output, listing, fpos,
          files0, dirs0,
          hist>>

\* lines 113, 115
ChunkSize(j) == params[j].chunk_size * BytesPerMB
Threshold(j) == params[j].file_size_threshold * BytesPerGB
\* lines 130-131
ChunkDir(j) == ChunkDirOf(dest[j])

SrcPath(j) == IF j = 1 THEN <<"s", "f">> ELSE <<"s", "g">>

Absent == <<-1>>     \* marks a file that does not exist

NoHist ==
    [madeDir |-> FALSE, strategy |-> "none", origExc |-> NoExc,
     completed |-> <<>>, maxInflight |-> 0, opened |-> FALSE,
     copied |-> FALSE, failed |-> {}, lateWrite |-> FALSE,
     reassembleFailed |-> FALSE, cleanupFault |-> FALSE]

IdleParams ==
    [src |-> <<"s", "g">>, dest |-> <<"d2", "g">>, mode |-> None, owner |-> None,
     group |-> None, backup |-> FALSE, force |-> TRUE, chunk_size |-> 1,
     file_size_threshold |-> 0, workers |-> 1, check_mode |-> FALSE]

\* the dest parameter: a file path, or (job 1) an existing directory
DestChoices(j) ==
    IF j = 1 THEN {<<"d1", "f">>, <<"d1">>} ELSE {<<"d1", "g">>, <<"d2", "g">>}
\* the file the job writes, whichever form the dest parameter has
DestFile(p) == IF Len(p.dest) = 1 THEN Join(p.dest, Basename(p.src)) ELSE p.dest

Metadata ==
    {<<None, None, None>>, <<"0644", None, None>>, <<None, "u", None>>,
     <<None, None, "g">>, <<"0644", "u", "g">>}

ParamSet(j) ==
    {[src |-> SrcPath(j), dest |-> d, mode |-> m[1], owner |-> m[2],
      group |-> m[3], backup |-> b, force |-> f, chunk_size |-> c,
      file_size_threshold |-> t, workers |-> w, check_mode |-> k] :
        d \in DestChoices(j), m \in Metadata, b \in BOOLEAN, f \in BOOLEAN,
        c \in 1..MaxChunkMB, t \in (-1)..MaxThresholdGB, w \in 1..MaxWorkers,
        k \in BOOLEAN}

DestContents == {Absent, <<>>, <<1>>}

\* the files one job finds: its source, its destination, a stale scratch file
JobFiles(fs, p, srcC, dstC, stale) ==
    LET f1 == IF srcC = Absent THEN fs ELSE WriteFile(fs, p.src, srcC)
        f2 == IF dstC = Absent THEN f1 ELSE WriteFile(f1, DestFile(p), dstC)
    IN  IF stale THEN WriteFile(f2, Join(ChunkDirOf(DestFile(p)), "stale"), <<0>>)
        ELSE f2

JobDirs(p, stale) ==
    {Dirname(p.src), Dirname(DestFile(p))}
        \cup (IF stale THEN {ChunkDirOf(DestFile(p))} ELSE {})

InitLocals(active) ==
    /\ attrs = <<>>
    /\ pc = [j \in JobIds |-> IF j \in active THEN "main" ELSE "idle"]
    /\ chunk_paths = [j \in JobIds |-> <<>>]
    /\ taskqueue = [j \in JobIds |-> <<>>]
    /\ inflight = [j \in JobIds |-> {}]
    /\ poolExc = [j \in JobIds |-> NoExc]
    /\ written = [j \in JobIds |-> 0]
    /\ exc = [j \in JobIds |-> NoExc]
    /\ result = [j \in JobIds |-> [changed |-> FALSE, msg |-> ""]]
    /\ output = [j \in JobIds |-> NoOutput]
    /\ listing = [j \in JobIds |-> <<>>]
    /\ fpos = [j \in JobIds |-> 0]
    /\ hist = [j \in JobIds |-> NoHist]

\* The inputs come in two families, to keep their product small: every
\* source content, chunk size, threshold and worker count with the flags at
\* their defaults, and every flag combination with a few source contents.
PipelineInputs(p, srcC, dstC) ==
    /\ p.force /\ ~p.check_mode /\ ~p.backup
    /\ p.mode = None /\ p.owner = None /\ p.group = None
    /\ Len(p.dest) = 2
    /\ srcC # Absent
    /\ dstC \in {Absent, <<1>>}

CallInputs(p, srcC, dstC) ==
    /\ p.chunk_size = 1
    /\ p.workers = MaxWorkers
    /\ srcC \in {Absent, <<>>, <<0, 1>>}

\* one invocation of the module
Init ==
    \E p \in ParamSet(1), srcC \in Contents \cup {Absent}, dstC \in DestContents,
       stale \in BOOLEAN :
        /\ PipelineInputs(p, srcC, dstC) \/ CallInputs(p, srcC, dstC)
        /\ params = [j \in JobIds |-> IF j = 1 THEN p ELSE IdleParams]
        /\ dest = [j \in JobIds |-> params[j].dest]
        /\ files = JobFiles(<<>>, p, srcC, dstC, stale)
        /\ files0 = files
        /\ dirs = JobDirs(p, stale)
        /\ dirs0 = dirs
        /\ InitLocals({1})

\* ------------------------------------------------------ pure operations
\* os.path.exists
Exists(fs, ds, p) == p \in DOMAIN fs \/ p \in ds

\* mutant: the read asks for one byte less than chunk_size
ReadChunk_Short(content, pos, chunk_size) ==
    SubSeq(content, pos + 1, Min(pos + chunk_size - 1, Len(content)))

\* line 47: f.read(chunk_size) at offset pos
ReadChunk(content, pos, chunk_size) ==
    SubSeq(content, pos + 1, Min(pos + chunk_size, Len(content)))

\* line 77: dest_chunk_paths for n chunks
DestChunkPaths(chunk_dir, n) ==
    [i \in 1..n |-> Join(chunk_dir, DestChunkName(i - 1))]

\* mutant: the ".bak" suffix is lost, the backup is copied onto dest itself
BackupPath_NoSuffix(d) == d

\* line 136
BackupPath(d) == Join(Dirname(d), Basename(d) \o ".bak")

\* line 141: the strategy decision
UseChunked(file_size, threshold) == file_size > threshold

\* Pool._map_async: the chunksize starmap picks for n tasks
PoolChunksize(n, workers) ==
    IF n = 0 THEN 0
    ELSE (n \div (workers * 4)) + (IF n % (workers * 4) # 0 THEN 1 ELSE 0)

RECURSIVE TaskBatches(_, _, _)
\* Pool._get_tasks: the task indexes from..n in batches of size
TaskBatches(from, n, size) ==
    IF from > n THEN <<>>
    ELSE <<[k \in 1..(Min(from + size - 1, n) - from + 1) |-> from + k - 1]>>
            \o TaskBatches(from + size, n, size)

\* mutant: the pool runs one thread more than asked
PoolSlots_OneMore(workers) == workers + 1

\* ThreadPool(workers): how many batches can be in progress at once
PoolSlots(workers) == workers

\* mutant: the chunks are read in the order their transfers completed
ReassembleOrder_Completion(paths, completed) ==
    [k \in 1..Len(paths) |-> IF k <= Len(completed) THEN paths[completed[k]]
                             ELSE paths[k]]

\* lines 67-69: the order in which reassemble_file reads the chunks
ReassembleOrder(paths, completed) == paths

\* what a write of content c to path p can leave behind when it fails
FailedWrite(fs, p, c) ==
    {fs} \cup {WriteFile(fs, p, SubSeq(c, 1, k)) : k \in 0..(Len(c) - 1)}

\* the answer of module.fail_json(msg=msg, **res), or the TypeError of the call
CallFailJson(msg, res) ==
    IF KwClash({"msg"}, res) THEN Traceback("TypeError")
    ELSE FailJson(res.changed, msg)

\* the answer of module.exit_json(changed=.., msg=.., **res)
CallExitJson(changed, msg, res) ==
    IF KwClash({"changed", "msg"}, res) THEN Traceback("TypeError")
    ELSE ExitJson(changed, msg)

NoAttr == [mode |-> None, owner |-> None, group |-> None]
AttrOf(a, p) == IF p \in DOMAIN a THEN a[p] ELSE NoAttr

\* ------------------------------------------------------------- actions
poolVars == <<taskqueue, inflight, poolExc>>
fsVars == <<files, dirs, attrs>>
splitVars == <<chunk_paths, fpos>>

\* an exception raised in the try block of main(): control goes to line 163
Raise(j, e) ==
    /\ exc' = [exc EXCEPT ![j] = e]
    /\ pc' = [pc EXCEPT ![j] = "except"]

\* lines 118-128: the checks before any work
Preflight(j) ==
    /\ pc[j] = "main"
    /\ LET p == params[j]
           d == IF p.dest \in dirs THEN Join(p.dest, Basename(p.src)) ELSE p.dest
       IN  IF ~Exists(files, dirs, p.src)
           THEN /\ output' = [output EXCEPT ![j] = CallFailJson(MsgNotFound(p.src), result[j])]
                /\ pc' = [pc EXCEPT ![j] = "done"]
                /\ dest' = dest
           ELSE /\ dest' = [dest EXCEPT ![j] = d]
                /\ IF ~p.force /\ Exists(files, dirs, d)
                   THEN /\ output' = [output EXCEPT ![j] = CallExitJson(FALSE, MsgForce, result[j])]
                        /\ pc' = [pc EXCEPT ![j] = "done"]
                   ELSE IF p.check_mode
                   THEN /\ output' = [output EXCEPT ![j] = CallExitJson(TRUE, MsgCheck, result[j])]
                        /\ pc' = [pc EXCEPT ![j] = "done"]
                   ELSE /\ output' = output
                        /\ pc' = [pc EXCEPT ![j] = "makedirs"]
    /\ UNCHANGED <<params, fsVars, splitVars, poolVars, written, exc, result,
                   listing, files0, dirs0, hist>>

\* mutant: exist_ok is left out, an existing directory is an error
MakeDirsRaises_NoExistOk(ds, d) == d \in ds

\* line 132: with exist_ok=True an existing chunk_dir is not an error
MakeDirsRaises(ds, d) == FALSE

\* mutant: the backup is not taken before the copy
AfterMakeDirs_NoBackup == "getsize"

\* lines 134-135: the try block starts with the backup
AfterMakeDirs == "backup"

\* lines 130-132: os.makedirs(chunk_dir, exist_ok=True); it is outside the
\* try block, an exception of it leaves main()
MakeDirs(j) ==
    /\ pc[j] = "makedirs"
    /\ IF MakeDirsRaises(dirs, ChunkDir(j))
       THEN /\ output' = [output EXCEPT ![j] = Traceback("FileExistsError")]
            /\ pc' = [pc EXCEPT ![j] = "done"]
            /\ UNCHANGED <<dirs, hist>>
       ELSE /\ dirs' = dirs \cup {ChunkDir(j)}
            /\ hist' = [hist EXCEPT ![j].madeDir = TRUE]
            /\ pc' = [pc EXCEPT ![j] = AfterMakeDirs]
            /\ output' = output
    /\ UNCHANGED <<params, files, attrs, dest, splitVars, poolVars, written,
                   exc, result, listing, files0, dirs0>>

\* lines 135-137: the backup of an existing destination
Backup(j) ==
    /\ pc[j] = "backup"
    /\ IF Exists(files, dirs, dest[j]) /\ params[j].backup
       THEN \/ /\ dest[j] \in DOMAIN files
               /\ files' = WriteFile(files, BackupPath(dest[j]), files[dest[j]])
               /\ attrs' = IF dest[j] \in DOMAIN attrs
                           THEN WriteFile(attrs, BackupPath(dest[j]), attrs[dest[j]])
                           ELSE attrs
               /\ pc' = [pc EXCEPT ![j] = "getsize"]
               /\ UNCHANGED <<exc, hist>>
            \/ /\ files' \in (IF dest[j] \in DOMAIN files
                             THEN FailedWrite(files, BackupPath(dest[j]), files[dest[j]])
                             ELSE {files})
               /\ Raise(j, "OSError: backup")
               /\ hist' = [hist EXCEPT ![j].origExc = "OSError: backup"]
               /\ attrs' = attrs
       ELSE /\ pc' = [pc EXCEPT ![j] = "getsize"]
            /\ UNCHANGED <<files, attrs, exc, hist>>
    /\ UNCHANGED <<params, dirs, dest, splitVars, poolVars, written, result,
                   output, listing, files0, dirs0>>

\* lines 140-141: the size of the source decides the strategy
Decide(j) ==
    /\ pc[j] = "getsize"
    /\ IF params[j].src \in DOMAIN files
       THEN /\ LET chunked == UseChunked(Len(files[params[j].src]), Threshold(j))
               IN  /\ pc' = [pc EXCEPT ![j] = IF chunked THEN "split" ELSE "direct"]
                   /\ hist' = [hist EXCEPT ![j].strategy =
                                   IF chunked THEN "chunked" ELSE "direct"]
            /\ exc' = exc
       ELSE /\ Raise(j, "OSError: getsize")
            /\ hist' = [hist EXCEPT ![j].origExc = "OSError: getsize"]
    /\ UNCHANGED <<params, fsVars, dest, splitVars, poolVars, written, result,
                   output, listing, files0, dirs0>>

\* lines 46-54: one turn of split_file's loop
SplitStep(j) ==
    /\ pc[j] = "split"
    /\ params[j].src \in DOMAIN files
    /\ LET chunk == ReadChunk(files[params[j].src], fpos[j], ChunkSize(j))
           chunk_name == Join(ChunkDir(j), ChunkName(Len(chunk_paths[j])))
       IN  IF chunk = <<>>
           THEN /\ pc' = [pc EXCEPT ![j] = "pool"]
                /\ UNCHANGED <<files, chunk_paths, fpos, exc, hist>>
           ELSE \/ /\ ChunkDir(j) \in dirs
                   /\ files' = WriteFile(files, chunk_name, chunk)
                   /\ chunk_paths' = [chunk_paths EXCEPT ![j] = Append(@, chunk_name)]
                   /\ fpos' = [fpos EXCEPT ![j] = @ + Len(chunk)]
                   /\ UNCHANGED <<pc, exc, hist>>
                \/ /\ files' \in (IF ChunkDir(j) \in dirs
                                 THEN FailedWrite(files, chunk_name, chunk)
                                 ELSE {files})
                   /\ Raise(j, "OSError: split")
                   /\ hist' = [hist EXCEPT ![j].origExc = "OSError: split"]
                   /\ UNCHANGED <<chunk_paths, fpos>>
    /\ UNCHANGED <<params, dirs, attrs, dest, poolVars, written, result,
                   output, listing, files0, dirs0>>

\* lines 77-79: the pool is created and starmap queues the task batches
StartPool(j) ==
    /\ pc[j] = "pool"
    /\ LET n == Len(chunk_paths[j])
       IN  taskqueue' = [taskqueue EXCEPT ![j] =
               TaskBatches(1, n, PoolChunksize(n, params[j].workers))]
    /\ pc' = [pc EXCEPT ![j] = "starmap"]
    /\ UNCHANGED <<params, fsVars, dest, splitVars, inflight, poolExc, written,
                   exc, result, output, listing, files0, dirs0, hist>>

\* a free worker thread of the pool takes the next batch
TakeTask(j) ==
    /\ pc[j] = "starmap"
    /\ taskqueue[j] # <<>>
    /\ Cardinality(inflight[j]) < PoolSlots(params[j].workers)
    /\ inflight' = [inflight EXCEPT ![j] = @ \cup {Head(taskqueue[j])}]
    /\ taskqueue' = [taskqueue EXCEPT ![j] = Tail(@)]
    /\ hist' = [hist EXCEPT ![j].maxInflight =
                   IF Cardinality(inflight'[j]) > @
                   THEN Cardinality(inflight'[j]) ELSE @]
    /\ UNCHANGED <<params, fsVars, pc, dest, splitVars, poolExc, written, exc,
                   result, output, listing, files0, dirs0>>

\* the cleanup has listed the scratch directory (line 167)
Listed(j) == pc[j] \in {"remove", "exit", "done"}

\* lines 58-61: a worker thread runs copy_chunk on the next item of its batch
\* b; an exception ends the batch and the first one is kept for starmap
CopyChunk(j, b) ==
    /\ b \in inflight[j]
    /\ LET i == Head(b)
           from == chunk_paths[j][i]
           to == DestChunkPaths(ChunkDir(j), Len(chunk_paths[j]))[i]
           ok == from \in DOMAIN files /\ ChunkDir(j) \in dirs
       IN  \/ /\ ok
              /\ files' = WriteFile(files, to, files[from])
              /\ inflight' = [inflight EXCEPT ![j] =
                     (@ \ {b}) \cup (IF Tail(b) = <<>> THEN {} ELSE {Tail(b)})]
              /\ hist' = [hist EXCEPT ![j].completed = Append(@, i),
                                      ![j].lateWrite = @ \/ Listed(j)]
              /\ poolExc' = poolExc
           \/ /\ files' \in (IF ok THEN FailedWrite(files, to, files[from])
                            ELSE {files})
              /\ inflight' = [inflight EXCEPT ![j] = @ \ {b}]
              /\ poolExc' = [poolExc EXCEPT ![j] =
                     IF @ = NoExc THEN "OSError: transfer" ELSE @]
              /\ hist' = [hist EXCEPT ![j].failed = @ \cup {i},
                                      ![j].lateWrite =
                                          @ \/ (Listed(j) /\ files' # files)]
    /\ UNCHANGED <<params, dirs, attrs, pc, dest, splitVars, taskqueue, written,
                   exc, result, output, listing, files0, dirs0>>

\* mutant: the result is ready as soon as every batch has been handed out
JoinReady_NoWait(queue, running, first_exc) == queue = <<>>

\* mutant: the result is ready at the first exception of a task
JoinReady_FailFast(queue, running, first_exc) ==
    first_exc # NoExc \/ (queue = <<>> /\ running = {})

\* MapResult._set: the result of starmap is ready once every batch is done,
\* also when a task has raised
JoinReady(queue, running, first_exc) == queue = <<>> /\ running = {}

\* mutant: the exception of a task is dropped
StarmapRaises_Never(first_exc) == FALSE

\* MapResult.get: starmap raises when a task has raised
StarmapRaises(first_exc) == first_exc # NoExc

\* line 79: starmap returns once every batch has finished, and raises the
\* first exception of a task if there is one
JoinPool(j) ==
    /\ pc[j] = "starmap"
    /\ JoinReady(taskqueue[j], inflight[j], poolExc[j])
    /\ IF ~StarmapRaises(poolExc[j])
       THEN /\ pc' = [pc EXCEPT ![j] = "reassemble"]
            /\ UNCHANGED <<exc, hist>>
       ELSE /\ Raise(j, poolExc[j])
            /\ hist' = [hist EXCEPT ![j].origExc = poolExc[j]]
    /\ UNCHANGED <<params, fsVars, dest, splitVars, poolVars, written, result,
                   output, listing, files0, dirs0>>

\* line 66: reassemble_file opens (creates or truncates) the destination
ReassembleOpen(j) ==
    /\ pc[j] = "reassemble"
    /\ \/ /\ files' = WriteFile(files, dest[j], <<>>)
          /\ written' = [written EXCEPT ![j] = 0]
          /\ pc' = [pc EXCEPT ![j] = "copyfileobj"]
          /\ hist' = [hist EXCEPT ![j].opened = TRUE]
          /\ exc' = exc
       \/ /\ Raise(j, "OSError: reassemble")
          /\ hist' = [hist EXCEPT ![j].origExc = "OSError: reassemble"]
          /\ UNCHANGED <<files, written>>
    /\ UNCHANGED <<params, dirs, attrs, dest, splitVars, poolVars, result,
                   output, listing, files0, dirs0>>

\* lines 67-69: the next chunk is appended to the open destination
ReassembleChunk(j) ==
    /\ pc[j] = "copyfileobj"
    /\ written[j] < Len(chunk_paths[j])
    /\ LET order == ReassembleOrder(
                        DestChunkPaths(ChunkDir(j), Len(chunk_paths[j])),
                        hist[j].completed)
           chunk == order[written[j] + 1]
           ok == chunk \in DOMAIN files /\ dest[j] \in DOMAIN files
           old == IF dest[j] \in DOMAIN files THEN files[dest[j]] ELSE <<>>
       IN  \/ /\ ok
              /\ files' = WriteFile(files, dest[j], old \o files[chunk])
              /\ written' = [written EXCEPT ![j] = @ + 1]
              /\ UNCHANGED <<pc, exc, hist>>
           \/ /\ files' \in (IF ok
                            THEN {WriteFile(files, dest[j], old \o SubSeq(files[chunk], 1, k)) :
                                      k \in 0..(Len(files[chunk]) - 1)}
                            ELSE {files})
              /\ Raise(j, "OSError: reassemble")
              /\ hist' = [hist EXCEPT ![j].origExc = "OSError: reassemble",
                                      ![j].reassembleFailed = TRUE]
              /\ written' = written
    /\ UNCHANGED <<params, dirs, attrs, dest, splitVars, poolVars, result,
                   output, listing, files0, dirs0>>

\* lines 82, 143: the destination is closed, do_chunk_copy returns and the
\* message names the chunked strategy
ChunkCopyDone(j) ==
    /\ pc[j] = "copyfileobj"
    /\ written[j] = Len(chunk_paths[j])
    /\ result' = [result EXCEPT ![j].msg =
                     MsgChunked(Threshold(j), params[j].chunk_size)]
    /\ pc' = [pc EXCEPT ![j] = "chmod"]
    /\ hist' = [hist EXCEPT ![j].copied = TRUE]
    /\ UNCHANGED <<params, fsVars, dest, splitVars, poolVars, written, exc,
                   output, listing, files0, dirs0>>

\* lines 145-150: the copy is handed to ansible_runner with module_args that
\* are not interpolated ('src={src} dest={dest} ...'), so the run does not
\* name this job's files; run() returns, or raises
DirectCopy(j) ==
    /\ pc[j] = "direct"
    /\ \/ /\ result' = [result EXCEPT ![j].msg = MsgDirect]
          /\ pc' = [pc EXCEPT ![j] = "chmod"]
          /\ UNCHANGED <<exc, hist>>
       \/ /\ Raise(j, "Exception: ansible_runner")
          /\ hist' = [hist EXCEPT ![j].origExc = "Exception: ansible_runner"]
          /\ result' = result
    /\ UNCHANGED <<params, fsVars, dest, splitVars, poolVars, written, output,
                   listing, files0, dirs0>>

\* lines 152-153: os.chmod(dest, int(mode, 8))
ApplyMode(j) ==
    /\ pc[j] = "chmod"
    /\ IF params[j].mode # None
       THEN \/ /\ dest[j] \in DOMAIN files
               /\ attrs' = WriteFile(attrs, dest[j],
                               [AttrOf(attrs, dest[j]) EXCEPT !.mode = params[j].mode])
               /\ pc' = [pc EXCEPT ![j] = "chown"]
               /\ UNCHANGED <<exc, hist>>
            \/ /\ Raise(j, "OSError: chmod")
               /\ hist' = [hist EXCEPT ![j].origExc = "OSError: chmod"]
               /\ attrs' = attrs
       ELSE /\ pc' = [pc EXCEPT ![j] = "chown"]
            /\ UNCHANGED <<attrs, exc, hist>>
    /\ UNCHANGED <<params, files, dirs, dest, splitVars, poolVars, written,
                   result, output, listing, files0, dirs0>>

\* lines 155-159: the user and group are looked up and os.chown is called
ApplyOwner(j) ==
    /\ pc[j] = "chown"
    /\ IF params[j].owner # None \/ params[j].group # None
       THEN \/ /\ dest[j] \in DOMAIN files
               /\ attrs' = WriteFile(attrs, dest[j],
                               [AttrOf(attrs, dest[j]) EXCEPT
                                   !.owner = IF params[j].owner # None
                                             THEN params[j].owner ELSE @,
                                   !.group = IF params[j].group # None
                                             THEN params[j].group ELSE @])
               /\ pc' = [pc EXCEPT ![j] = "succeed"]
               /\ UNCHANGED <<exc, hist>>
            \/ /\ Raise(j, "OSError: chown")
               /\ hist' = [hist EXCEPT ![j].origExc = "OSError: chown"]
               /\ attrs' = attrs
       ELSE /\ pc' = [pc EXCEPT ![j] = "succeed"]
            /\ UNCHANGED <<attrs, exc, hist>>
    /\ UNCHANGED <<params, files, dirs, dest, splitVars, poolVars, written,
                   result, output, listing, files0, dirs0>>

\* lines 161-162: the end of the try block
Succeed(j) ==
    /\ pc[j] = "succeed"
    /\ result' = [result EXCEPT ![j] =
           [changed |-> TRUE,
            msg |-> MsgCopied(params[j].src, dest[j], params[j].chunk_size)]]
    /\ pc' = [pc EXCEPT ![j] = "finally"]
    /\ UNCHANGED <<params, fsVars, dest, splitVars, poolVars, written, exc,
                   output, listing, files0, dirs0, hist>>

\* mutant: the cleanup is not in a finally clause, a failure skips it
AfterExcept_NoFinally == "exit"

\* where control goes when the except clause is left
AfterExcept == "finally"

\* lines 163-164: module.fail_json(msg=f"Failed: {e}", **result); the call
\* either answers and raises SystemExit, or raises the TypeError of the call
Except(j) ==
    /\ pc[j] = "except"
    /\ LET answer == CallFailJson(MsgFailed(exc[j]), result[j])
       IN  IF answer.kind = "traceback"
           THEN /\ exc' = [exc EXCEPT ![j] = answer.error]
                /\ output' = output
           ELSE /\ exc' = [exc EXCEPT ![j] = "SystemExit"]
                /\ output' = [output EXCEPT ![j] = answer]
    /\ pc' = [pc EXCEPT ![j] = AfterExcept]
    /\ UNCHANGED <<params, fsVars, dest, splitVars, poolVars, written, result,
                   listing, files0, dirs0, hist>>

\* mutant: the removal calls are wrapped so that their errors are ignored
RaiseInFinally_Swallowed(j, e) ==
    /\ exc' = exc
    /\ hist' = [hist EXCEPT ![j].cleanupFault = TRUE]
    /\ pc' = [pc EXCEPT ![j] = "exit"]

\* an exception raised in the finally clause replaces the one propagating
RaiseInFinally(j, e) ==
    /\ exc' = [exc EXCEPT ![j] = e]
    /\ hist' = [hist EXCEPT ![j].cleanupFault = TRUE]
    /\ pc' = [pc EXCEPT ![j] = "exit"]

\* line 167: os.listdir(chunk_dir)
CleanupList(j) ==
    /\ pc[j] = "finally"
    /\ \/ /\ ChunkDir(j) \in dirs
          /\ listing' = [listing EXCEPT ![j] = SetToSeq(FilesIn(files, ChunkDir(j)))]
          /\ pc' = [pc EXCEPT ![j] = "remove"]
          /\ UNCHANGED <<exc, hist>>
       \/ /\ RaiseInFinally(j, "OSError: listdir")
          /\ listing' = listing
    /\ UNCHANGED <<params, fsVars, dest, splitVars, poolVars, written, result,
                   output, files0, dirs0>>

\* line 168: os.remove of the next listed entry
CleanupRemove(j) ==
    /\ pc[j] = "remove"
    /\ listing[j] # <<>>
    /\ \/ /\ Head(listing[j]) \in DOMAIN files
          /\ files' = RemoveFile(files, Head(listing[j]))
          /\ listing' = [listing EXCEPT ![j] = Tail(@)]
          /\ UNCHANGED <<pc, exc, hist>>
       \/ /\ RaiseInFinally(j, "OSError: remove")
          /\ UNCHANGED <<files, listing>>
    /\ UNCHANGED <<params, dirs, attrs, dest, splitVars, poolVars, written,
                   result, output, files0, dirs0>>

\* line 169: os.rmdir(chunk_dir)
CleanupRmdir(j) ==
    /\ pc[j] = "remove"
    /\ listing[j] = <<>>
    /\ \/ /\ ChunkDir(j) \in dirs
          /\ FilesIn(files, ChunkDir(j)) = {}
          /\ dirs' = dirs \ {ChunkDir(j)}
          /\ pc' = [pc EXCEPT ![j] = "exit"]
          /\ UNCHANGED <<exc, hist>>
       \/ /\ RaiseInFinally(j, "OSError: rmdir")
          /\ dirs' = dirs
    /\ UNCHANGED <<params, files, attrs, dest, splitVars, poolVars, written,
                   result, output, listing, files0, dirs0>>

\* line 171, or the exception that leaves main()
Exit(j) ==
    /\ pc[j] = "exit"
    /\ output' = [output EXCEPT ![j] =
           IF exc[j] = NoExc THEN ExitJson(result[j].changed, result[j].msg)
           ELSE IF exc[j] = "SystemExit" THEN @
           ELSE Traceback(exc[j])]
    /\ pc' = [pc EXCEPT ![j] = "done"]
    /\ UNCHANGED <<params, fsVars, dest, splitVars, poolVars, written, exc,
                   result, listing, files0, dirs0, hist>>

\* two invocations of the module at the same time, on one filesystem; the
\* destinations are in one directory or in two
InitConc ==
    \E d2 \in DestChoices(2), t2 \in 0..MaxThresholdGB :
        /\ params = [j \in JobIds |->
               IF j = 1
               THEN [IdleParams EXCEPT !.src = SrcPath(1), !.dest = <<"d1", "f">>]
               ELSE [IdleParams EXCEPT !.dest = d2, !.file_size_threshold = t2,
                                       !.mode = "0644"]]
        /\ dest = [j \in JobIds |-> params[j].dest]
        /\ files = JobFiles(JobFiles(<<>>, params[1], <<0, 1>>, Absent, FALSE),
                            params[2], <<1>>, Absent, FALSE)
        /\ files0 = files
        /\ dirs = JobDirs(params[1], FALSE) \cup JobDirs(params[2], FALSE)
        /\ dirs0 = dirs
        /\ InitLocals(JobIds)

Next ==
    \E j \in JobIds :
        \/ Preflight(j)
        \/ MakeDirs(j)
        \/ Backup(j)
        \/ Decide(j)
        \/ SplitStep(j)
        \/ StartPool(j)
        \/ TakeTask(j)
        \/ \E b \in inflight[j] : CopyChunk(j, b)
        \/ JoinPool(j)
        \/ ReassembleOpen(j)
        \/ ReassembleChunk(j)
        \/ ChunkCopyDone(j)
        \/ DirectCopy(j)
        \/ ApplyMode(j)
        \/ ApplyOwner(j)
        \/ Succeed(j)
        \/ Except(j)
        \/ CleanupList(j)
        \/ CleanupRemove(j)
        \/ CleanupRmdir(j)
        \/ Exit(j)

Spec == Init /\ [][Next]_vars

SpecConc == InitConc /\ [][Next]_vars

\* ----------------------------------------------------------------------
\* Properties
\* ----------------------------------------------------------------------
Done(j) == pc[j] = "done"
SrcContent(j) == files0[params[j].src]
NumChunks(j) == Len(chunk_paths[j])

RECURSIVE ConcatFiles(_, _, _)
\* the contents of the first k files of paths, one after the other
ConcatFiles(fs, paths, k) ==
    IF k = 0 THEN <<>>
    ELSE ConcatFiles(fs, paths, k - 1) \o fs[paths[k]]

CeilDiv(a, b) == (a + b - 1) \div b

\* C1: once a chunked copy has returned without error, the destination file
\* holds exactly the bytes of the source (no gap, overlap or padding), for
\* every source content, the empty one included, and every chunk size.
C1_RoundTripIdentity ==
    \A j \in JobIds :
        hist[j].copied =>
            /\ dest[j] \in DOMAIN files
            /\ files[dest[j]] = SrcContent(j)

\* a chunked copy of a source of several chunks, the last one short, succeeded
C1_Witness ==
    /\ Done(1) /\ output[1].kind = "exit_json" /\ hist[1].copied
    /\ Len(SrcContent(1)) = 3 /\ ChunkSize(1) = 2
    /\ files[dest[1]] = SrcContent(1)

\* C2: when a call that made the scratch directory has ended - after a
\* successful copy, or after a failure of the backup, split, transfer,
\* reassembly or of chmod/chown - and the removal calls of the cleanup did
\* not themselves fail, the scratch directory does not exist.
C2_ScratchRemoved ==
    \A j \in JobIds :
        (Done(j) /\ hist[j].madeDir /\ ~hist[j].cleanupFault) =>
            /\ ChunkDir(j) \notin dirs
            /\ FilesIn(files, ChunkDir(j)) = {}

\* a call whose transfer failed after chunks were written has ended
C2_Witness ==
    /\ Done(1) /\ hist[1].origExc = "OSError: transfer"
    /\ ~hist[1].cleanupFault
    /\ NumChunks(1) >= 2
    /\ ChunkDir(1) \notin dirs

\* C3: while reassemble_file runs, the destination holds the chunks in index
\* order - the first chunk first - whatever the number of workers and
\* whatever the order in which the transfers completed.
C3_IndexOrder ==
    \A j \in JobIds :
        (pc[j] = "copyfileobj" /\ dest[j] \in DOMAIN files) =>
            files[dest[j]] = ConcatFiles(files, chunk_paths[j], written[j])

\* two workers completed the transfers out of index order and the chunks,
\* which differ, were reassembled
C3_Witness ==
    /\ hist[1].copied /\ params[1].workers = 2
    /\ Len(hist[1].completed) >= 2
    /\ hist[1].completed[1] > hist[1].completed[2]
    /\ SrcContent(1) = <<0, 1, 1>> /\ ChunkSize(1) = 1
    /\ files[dest[1]] = <<0, 1, 1>>

\* C6: when split_file returns, it has written ceil(size / chunk_size)
\* chunks named chunk_00000, chunk_00001, ... in read order; there is no
\* chunk exactly when the source is empty, every chunk but the last has
\* chunk_size bytes and the last has the bytes that remain.
C6_ChunkCount ==
    \A j \in JobIds :
        pc[j] = "pool" =>
            LET size == Len(SrcContent(j))
                n == NumChunks(j)
            IN  /\ n = CeilDiv(size, ChunkSize(j))
                /\ (n = 0) <=> (size = 0)
                /\ \A i \in 1..n :
                    /\ chunk_paths[j][i] =
                           Join(ChunkDir(j), "chunk_0000" \o ToString(i - 1))
                    /\ chunk_paths[j][i] \in DOMAIN files
                    /\ Len(files[chunk_paths[j][i]]) =
                           IF i < n THEN ChunkSize(j)
                           ELSE size - (n - 1) * ChunkSize(j)

\* split_file returned two chunks for a source of three bytes
C6_Witness ==
    /\ pc[1] = "pool" /\ Len(SrcContent(1)) = 3 /\ ChunkSize(1) = 2
    /\ NumChunks(1) = 2
    /\ Len(files[chunk_paths[1][2]]) = 1

\* the job holds its scratch directory: made, and the cleanup not yet over
HoldsScratch(j) == hist[j].madeDir /\ pc[j] \notin {"exit", "done"}

\* C4: two jobs that run at the same time never hold the same scratch
\* directory, also when their destinations are in one parent directory.
C4_DistinctScratch ==
    \A j1, j2 \in JobIds :
        (j1 # j2 /\ HoldsScratch(j1) /\ HoldsScratch(j2)) =>
            ChunkDir(j1) # ChunkDir(j2)

\* C5: after a call whose reassembly failed once it had opened the
\* destination, the destination path is absent or holds what it held before
\* the call (the code has no way to mark a file incomplete).
C5_NoPartialDest ==
    \A j \in JobIds :
        (Done(j) /\ hist[j].reassembleFailed) =>
            \/ dest[j] \notin DOMAIN files
            \/ /\ dest[j] \in DOMAIN files0
               /\ files[dest[j]] = files0[dest[j]]

\* the message names the chunked strategy / the direct-copy strategy
NamesChunked(j, m) ==
    \/ m = MsgChunked(Threshold(j), params[j].chunk_size)
    \/ m = MsgCopied(params[j].src, dest[j], params[j].chunk_size)
NamesDirect(m) == m = MsgDirect

\* C7: the message of a successful call names the chunked strategy when the
\* source is larger than the threshold and the direct copy when it is not.
C7_StrategyReported ==
    \A j \in JobIds :
        (Done(j) /\ output[j].kind = "exit_json" /\ hist[j].strategy # "none") =>
            IF Len(SrcContent(j)) > Threshold(j)
            THEN NamesChunked(j, output[j].msg) /\ ~NamesDirect(output[j].msg)
            ELSE NamesDirect(output[j].msg) /\ ~NamesChunked(j, output[j].msg)

SrcExisted(j) == Exists(files0, dirs0, params[j].src)
DestExisted(j) == Exists(files0, dirs0, DestFile(params[j]))
Untouched == files = files0 /\ dirs = dirs0 /\ attrs = <<>>

\* C8: a call with force false whose destination exists changes nothing in
\* the filesystem and answers changed=false.
C8_ForceFalseNoOp ==
    \A j \in JobIds :
        (Done(j) /\ SrcExisted(j) /\ ~params[j].force /\ DestExisted(j)) =>
            /\ Untouched
            /\ output[j].kind = "exit_json"
            /\ output[j].changed = FALSE

\* C9: a call in check mode changes nothing in the filesystem, never enters
\* the pipeline and answers changed=true with a message.
C9_CheckModeDryRun ==
    \A j \in JobIds :
        (Done(j) /\ SrcExisted(j) /\ params[j].check_mode
                 /\ (params[j].force \/ ~DestExisted(j))) =>
            /\ Untouched
            /\ hist[j].strategy = "none"
            /\ output[j].kind = "exit_json"
            /\ output[j].changed = TRUE
            /\ output[j].msg # ""

PipelineErrors == {"OSError: split", "OSError: transfer", "OSError: reassemble"}

\* C10: after a failure of split, transfer or reassembly (and a cleanup that
\* did not fail itself) the scratch directory is gone and the caller has the
\* failure answer whose message wraps that error.
C10_OriginalErrorSurfaced ==
    \A j \in JobIds :
        (Done(j) /\ hist[j].origExc \in PipelineErrors /\ ~hist[j].cleanupFault) =>
            /\ ChunkDir(j) \notin dirs
            /\ output[j].kind = "fail_json"
            /\ output[j].msg = MsgFailed(hist[j].origExc)

\* a chunked copy whose pool ran a task batch of two chunks succeeded
C1_WitnessBatch ==
    /\ hist[1].copied /\ SrcContent(1) = LongSource
    /\ PoolChunksize(NumChunks(1), params[1].workers) = 2
    /\ files[dest[1]] = LongSource
CleanupErrors == {"OSError: listdir", "OSError: remove", "OSError: rmdir"}

\* C11: when the whole try block succeeded and a removal call of the cleanup
\* then fails, the call ends with that removal error as its failure and the
\* success answer of line 171 is never given.
C11_CleanupFailureSurfaced ==
    \A j \in JobIds :
        (hist[j].cleanupFault /\ hist[j].origExc = NoExc) =>
            /\ output[j].kind # "exit_json"
            /\ Done(j) => /\ output[j].kind = "traceback"
                          /\ output[j].error \in CleanupErrors

\* a chunked copy succeeded, line 161 set changed, and os.rmdir then failed
C11_Witness ==
    /\ Done(1) /\ hist[1].copied /\ result[1].changed
    /\ hist[1].cleanupFault /\ hist[1].origExc = NoExc
    /\ output[1].error = "OSError: rmdir"
\* C12: when backup is true, the destination existed, force permits the copy
\* and the call is not a dry run, then after the call - unless the backup
\* copy itself failed - the file dest + ".bak" holds the bytes the
\* destination had before the call, whatever the destination holds now.
C12_BackupKept ==
    \A j \in JobIds :
        LET d == DestFile(params[j])
            bak == Join(Dirname(d), Basename(d) \o ".bak")
        IN  (/\ Done(j) /\ SrcExisted(j)
             /\ params[j].backup /\ params[j].force /\ ~params[j].check_mode
             /\ d \in DOMAIN files0
             /\ hist[j].origExc # "OSError: backup") =>
                /\ bak \in DOMAIN files
                /\ files[bak] = files0[d]

\* the destination <<1>> was backed up and then overwritten by the copy
C12_Witness ==
    /\ Done(1) /\ params[1].backup /\ hist[1].copied
    /\ <<"d1", "f">> \in DOMAIN files0 /\ files0[<<"d1", "f">>] = <<1>>
    /\ <<"d1", "f">> \in DOMAIN files /\ files[<<"d1", "f">>] = <<0, 1>>
    /\ <<"d1", "f.bak">> \in DOMAIN files /\ files[<<"d1", "f.bak">>] = <<1>>
\* C13: a call whose source does not exist ends at once with the
\* source-not-found failure answer, and has touched nothing: no scratch
\* directory, no backup, the destination as it was.
C13_SourceNotFound ==
    \A j \in JobIds :
        (Done(j) /\ ~SrcExisted(j)) =>
            /\ Untouched
            /\ ~hist[j].madeDir
            /\ output[j].kind = "fail_json"
            /\ output[j].msg = MsgNotFound(params[j].src)
\* a worker has taken a batch of this job's transfers
TransferStarted(j) ==
    inflight[j] # {} \/ hist[j].completed # <<>> \/ hist[j].failed # {}

\* C14: the stages run in sequence with a join: when a transfer has started,
\* split_file has read the whole source and written every chunk; when
\* reassemble_file has opened the destination, every transfer has completed
\* and none is queued or in flight.
C14_StagesInSequence ==
    \A j \in JobIds :
        /\ TransferStarted(j) =>
            /\ pc[j] \notin {"split", "pool"}
            /\ fpos[j] = Len(SrcContent(j))
            /\ NumChunks(j) = CeilDiv(Len(SrcContent(j)), ChunkSize(j))
        /\ hist[j].opened =>
            /\ taskqueue[j] = <<>> /\ inflight[j] = {}
            /\ Len(hist[j].completed) = NumChunks(j)
            /\ hist[j].failed = {}

\* the destination was opened after two workers had run at the same time
\* and transferred three chunks
C14_Witness ==
    /\ hist[1].opened /\ pc[1] = "copyfileobj"
    /\ NumChunks(1) = 3 /\ hist[1].maxInflight = 2
    /\ Len(hist[1].completed) = 3
Completed(j) == {hist[j].completed[k] : k \in 1..Len(hist[j].completed)}
AfterTry(j) == pc[j] \in {"except", "finally", "remove", "exit", "done"}

\* C15: when a transfer has failed, main() leaves the try block only when no
\* other transfer is in flight; no worker writes a scratch file once the
\* cleanup has listed the directory, and when the removal calls do not fail
\* the failed job leaves neither a chunk file nor the scratch directory.
C15_NoTransferDuringCleanup ==
    \A j \in JobIds :
        /\ (poolExc[j] # NoExc /\ AfterTry(j)) => inflight[j] = {}
        /\ ~hist[j].lateWrite
        /\ (Done(j) /\ hist[j].failed # {} /\ ~hist[j].cleanupFault) =>
               /\ ChunkDir(j) \notin dirs
               /\ FilesIn(files, ChunkDir(j)) = {}

\* two transfers ran at the same time, the first chunk's failed and the
\* second chunk's completed, and the call has ended
C15_Witness ==
    /\ Done(1) /\ hist[1].maxInflight = 2
    /\ hist[1].failed = {1} /\ 2 \in Completed(1)
    /\ ~hist[1].cleanupFault /\ ChunkDir(1) \notin dirs

\* C16: at every moment at most workers transfers are in flight; with one
\* worker at most one is, and the chunks are transferred in index order.
C16_BoundedInFlight ==
    \A j \in JobIds :
        /\ Cardinality(inflight[j]) <= params[j].workers
        /\ hist[j].maxInflight <= params[j].workers
        /\ params[j].workers = 1 =>
               \A k \in 1..(Len(hist[j].completed) - 1) :
                   hist[j].completed[k] < hist[j].completed[k + 1]

\* three chunks, two workers: two transfers in flight and one still queued
C16_Witness ==
    /\ params[1].workers = 2 /\ NumChunks(1) = 3
    /\ Cardinality(inflight[1]) = 2 /\ Len(taskqueue[1]) = 1

\* the destination path holds what it held before the call, or is absent as
\* before, and no mode, owner or group has been set on it
DestAsBefore(j) ==
    /\ (dest[j] \in DOMAIN files) <=> (dest[j] \in DOMAIN files0)
    /\ dest[j] \in DOMAIN files => files[dest[j]] = files0[dest[j]]
    /\ dest[j] \notin DOMAIN attrs

\* C17: once a transfer has failed, the failed chunk is not transferred
\* again, reassembly is never started and the destination is neither
\* opened, truncated nor written; the call does not end in success.
C17_FailedTransferAborts ==
    \A j \in JobIds :
        hist[j].failed # {} =>
            /\ hist[j].failed \cap Completed(j) = {}
            /\ pc[j] \notin {"reassemble", "copyfileobj", "chmod", "chown", "succeed"}
            /\ ~hist[j].opened /\ ~hist[j].copied
            /\ DestAsBefore(j)
            /\ output[j].kind # "exit_json"

\* a call whose second transfer failed has ended; the old destination is intact
C17_Witness ==
    /\ Done(1) /\ hist[1].failed = {2} /\ 1 \in Completed(1)
    /\ dest[1] \in DOMAIN files /\ files[dest[1]] = <<1>>
\* the copy, chunked or direct, has returned
PipelineOver(j) ==
    /\ pc[j] \in {"chmod", "chown", "succeed", "except", "finally", "remove",
                  "exit", "done"}
    /\ taskqueue[j] = <<>> /\ inflight[j] = {}
    /\ hist[j].strategy = "chunked" =>
           /\ hist[j].copied
           /\ written[j] = NumChunks(j)

\* C18: the backup is complete before the pipeline writes the destination
\* (while it is taken nothing of the pipeline has started), and mode, owner
\* and group are set only when the pipeline has returned and no transfer is
\* queued or in flight.
C18_BackupCopyMetadataInOrder ==
    \A j \in JobIds :
        LET d == DestFile(params[j])
            bak == Join(Dirname(d), Basename(d) \o ".bak")
        IN  /\ pc[j] = "backup" =>
                /\ DestAsBefore(j) /\ ~hist[j].opened
                /\ chunk_paths[j] = <<>> /\ ~TransferStarted(j)
            /\ (hist[j].opened /\ params[j].backup /\ d \in DOMAIN files0) =>
                /\ bak \in DOMAIN files
                /\ files[bak] = files0[d]
            /\ (pc[j] \in {"chmod", "chown"} \/ dest[j] \in DOMAIN attrs) =>
                PipelineOver(j)

\* the old destination was backed up, the chunked copy replaced it, the mode
\* is set and the owner is about to be
C18_Witness ==
    /\ pc[1] = "chown" /\ params[1].backup /\ hist[1].copied
    /\ <<"d1", "f.bak">> \in DOMAIN files /\ files[<<"d1", "f.bak">>] = <<1>>
    /\ files[dest[1]] = <<0, 1>>
    /\ dest[1] \in DOMAIN attrs /\ attrs[dest[1]].mode = "0644"

MetadataErrors == {"OSError: chmod", "OSError: chown"}

\* C19: when chmod or chown fails after a chunked copy (and the cleanup does
\* not fail), the caller has the failure answer for that error, the
\* destination still holds all bytes of the source and the scratch directory
\* is removed.
C19_MetadataFailureSurfaced ==
    \A j \in JobIds :
        (/\ Done(j) /\ hist[j].origExc \in MetadataErrors
         /\ hist[j].copied /\ ~hist[j].cleanupFault) =>
            /\ output[j].kind = "fail_json"
            /\ output[j].msg = MsgFailed(hist[j].origExc)
            /\ dest[j] \in DOMAIN files /\ files[dest[j]] = SrcContent(j)
            /\ ChunkDir(j) \notin dirs

\* the scratch directory of the job was there before the call
ScratchExisted(j) == ChunkDirOf(DestFile(params[j])) \in dirs0

\* C20: a call that finds '.copy_chunks_tmp' in the destination's directory
\* goes on without an error of makedirs, and its cleanup - when no removal
\* call fails - removes every file of that directory, those it found there
\* included, and the directory.
C20_StaleScratchReused ==
    \A j \in JobIds :
        ScratchExisted(j) =>
            /\ output[j].error # "FileExistsError"
            /\ pc[j] \notin {"idle", "main", "makedirs"} =>
                   \/ hist[j].madeDir
                   \/ Done(j) /\ output[j].error = "TypeError"
            /\ (Done(j) /\ hist[j].madeDir /\ ~hist[j].cleanupFault) =>
                   /\ FilesIn(files, ChunkDir(j)) = {}
                   /\ ChunkDir(j) \notin dirs

\* a call that found a stale file in the scratch directory has succeeded and
\* both are gone
C20_Witness ==
    /\ Done(1) /\ output[1].kind = "exit_json" /\ hist[1].copied
    /\ <<"d1", ".copy_chunks_tmp", "stale">> \in DOMAIN files0
    /\ <<"d1", ".copy_chunks_tmp", "stale">> \notin DOMAIN files
    /\ <<"d1", ".copy_chunks_tmp">> \notin dirs
====
